---- MODULE Spec2Model ----
(***************************************************************************)
(* A model of pdbtbx's PDB reader: the line lexers of src/read/parser.rs,  *)
(* the fold of the lexed records into a PDB (parse), and the chain upsert  *)
(* of src/structs/model.rs.                                                *)
(*                                                                         *)
(* A line is a sequence of one-character strings; a column of the source   *)
(* (0-based) is position column + 1 of the sequence.  Numbers decoded      *)
(* from text are integers; an f64 is the exact decimal it was written as,  *)
(* [m, e] standing for m * 10^(-e) with no trailing zero in m when e > 0.  *)
(***************************************************************************)
EXTENDS Integers, Sequences, FiniteSets, TLC

VARIABLES
  menu,           \* which set of input lines the file is drawn from
  linenumber,     \* parse: lines read so far (1-based number of the last one)
  pdb,            \* parse: the PDB being built
  current_model,  \* parse: the current Model accumulator
  errors,         \* parse: the diagnostics collected so far
  outcome,        \* parse: "reading", "Ok", "Err" or "Panic"
  returned,       \* parse: the PDBError of an Err result, NoError otherwise
  items,          \* history: the lexer's result for every line read
  lines,          \* history: the lines read (reader.lines())
  acc,            \* history: how many Model::new calls parse has made
  model_acc,      \* history: for each model of pdb, the Model::new call that made it
  model,          \* Model API: one Model driven by add_atom / add_hetero_atom
  calls           \* Model API: history of the calls made on model

vars == <<menu, linenumber, pdb, current_model, errors, outcome, returned,
          items, lines, acc, model_acc, model, calls>>

-----------------------------------------------------------------------------
(* Bounds *)

\* Lines of one input file.
MaxLines == 4
\* Lines of one input file of the xform specification.
MaxXformLines == 7
\* Calls on one Model in the Model API specification.
MaxCalls == 3

-----------------------------------------------------------------------------
(* Characters and numbers: parse_number *)

Digits == <<"0", "1", "2", "3", "4", "5", "6", "7", "8", "9">>

is_ascii_digit(c) == \E i \in 1..10 : Digits[i] = c

to_digit(c) == (CHOOSE i \in 1..10 : Digits[i] = c) - 1

\* split_whitespace().collect::<String>(): every blank is dropped, also inside.
RECURSIVE split_whitespace(_)
split_whitespace(s) ==
  IF s = <<>> THEN <<>>
  ELSE IF Head(s) = " " THEN split_whitespace(Tail(s))
  ELSE <<Head(s)>> \o split_whitespace(Tail(s))

AllDigits(s) == \A i \in 1..Len(s) : is_ascii_digit(s[i])

RECURSIVE DecimalValue(_)
DecimalValue(s) ==
  IF s = <<>> THEN 0
  ELSE 10 * DecimalValue(SubSeq(s, 1, Len(s) - 1)) + to_digit(s[Len(s)])

NotANumber == [ok |-> FALSE, v |-> 0]

\* usize::from_str: an optional '+', then at least one digit.
Unsigned(body) ==
  IF body # <<>> /\ AllDigits(body)
  THEN [ok |-> TRUE, v |-> DecimalValue(body)]
  ELSE NotANumber

ParseUsize(s) == Unsigned(IF s # <<>> /\ Head(s) = "+" THEN Tail(s) ELSE s)

\* isize::from_str: an optional '+' or '-', then at least one digit.
Negative(s) == s # <<>> /\ Head(s) = "-"
Unsign(s) == IF s # <<>> /\ Head(s) \in {"+", "-"} THEN Tail(s) ELSE s

Signed(negative, r) ==
  IF r.ok /\ negative THEN [ok |-> TRUE, v |-> 0 - r.v] ELSE r

ParseIsize(s) == Signed(Negative(s), Unsigned(Unsign(s)))

RECURSIVE StripTrailingZeros(_)
StripTrailingZeros(s) ==
  IF s # <<>> /\ s[Len(s)] = "0" THEN StripTrailingZeros(SubSeq(s, 1, Len(s) - 1))
  ELSE s

\* f64::from_str on the decimal literals [+-]digits[.digits] (one side of the
\* point may be empty); exponents, "inf" and "nan" are outside the alphabet
\* the input lines are written in.
Points(body) == {i \in 1..Len(body) : body[i] = "."}

\* The digits before the point, and after it without the trailing zeros.
Decimal(negative, int, frac) ==
  IF AllDigits(int) /\ AllDigits(frac) /\ Len(int) + Len(frac) >= 1
  THEN [ok |-> TRUE,
        v |-> [m |-> IF negative
                     THEN 0 - DecimalValue(int \o StripTrailingZeros(frac))
                     ELSE DecimalValue(int \o StripTrailingZeros(frac)),
               e |-> Len(StripTrailingZeros(frac))]]
  ELSE NotANumber

SplitAt(negative, body, p) ==
  Decimal(negative, SubSeq(body, 1, p - 1), SubSeq(body, p + 1, Len(body)))

Unsigned64(negative, body) ==
  IF Points(body) = {} THEN SplitAt(negative, body, Len(body) + 1)
  ELSE IF Cardinality(Points(body)) > 1 THEN NotANumber
  ELSE SplitAt(negative, body, CHOOSE i \in Points(body) : TRUE)

ParseF64(s) == Unsigned64(Negative(s), Unsign(s))

\* Context::line(linenumber, &line, offset, length) / full_line / show.
ContextLine(ln, offset, length) == [line |-> ln, col |-> offset, len |-> length]
ContextFullLine(ln, line) == [line |-> ln, col |-> 0, len |-> Len(line)]
ContextShow == [line |-> 0, col |-> 0, len |-> 0]

\* PDBError::new(level, short description, long description, context); the
\* two values a MASTER checksum message is formatted from are kept as numbers.
PDBError(level, title, context) ==
  [level |-> level, title |-> title, context |-> context,
   about |-> "", actual |-> 0, declared |-> 0]

NoError == PDBError("None", "", ContextShow)

\* parse_number::<T>(context, input): [ok, v] or [ok, err].
FromStr(T, string) ==
  CASE T = "usize" -> ParseUsize(string)
    [] T = "isize" -> ParseIsize(string)
    [] OTHER -> ParseF64(string)

NumberResult(r, context) ==
  IF r.ok THEN [ok |-> TRUE, v |-> r.v, err |-> NoError]
  ELSE [ok |-> FALSE, v |-> 0,
        err |-> PDBError("BreakingError", "Not a number", context)]

parse_number(T, context, input) ==
  NumberResult(FromStr(T, split_whitespace(input)), context)

-----------------------------------------------------------------------------
(* The lexers.  A lexer's result is a LexItem, Err(PDBError), or Panic when  *)
(* the code indexes or slices past the end of the line.                      *)

Panic == [kind |-> "Panic"]
Err(e) == [kind |-> "Error", err |-> e]

F64(m, e) == [m |-> m, e |-> e]

\* One column read of a lexer: chars[a] (t = "char", b = a + 1) or
\* parse_number::<t>(Context::line(ln, &line, ca, cl), &chars[a..b]).
Char(name, a) == [name |-> name, t |-> "char", a |-> a, b |-> a + 1, ca |-> a, cl |-> 1]
Num(name, t, a, b) == [name |-> name, t |-> t, a |-> a, b |-> b, ca |-> a, cl |-> b - a]
NumCtx(name, t, a, b, ca, cl) == [name |-> name, t |-> t, a |-> a, b |-> b, ca |-> ca, cl |-> cl]

\* The reads of a lexer in the order the code makes them: a read past the end
\* of the line panics, a parse_number failure returns its error (the `?`),
\* and what was read before is kept in got (name -> value).
RECURSIVE ReadFields(_, _, _, _)
ReadNumber(chars, ln, reads, got, name, n) ==
  IF n.ok THEN ReadFields(chars, ln, reads, got @@ (name :> n.v)) ELSE Err(n.err)

ReadField(chars, ln, reads, got, f) ==
  IF f.b > Len(chars) THEN Panic
  ELSE IF f.t = "char"
  THEN ReadFields(chars, ln, reads, got @@ (f.name :> chars[f.a + 1]))
  ELSE ReadNumber(chars, ln, reads, got, f.name,
                  parse_number(f.t, ContextLine(ln, f.ca, f.cl),
                               SubSeq(chars, f.a + 1, f.b)))

ReadFields(chars, ln, reads, got) ==
  IF reads = <<>> THEN [kind |-> "Ok", v |-> got]
  ELSE ReadField(chars, ln, Tail(reads), got, Head(reads))

NoFields == [x \in {} |-> 0]

\* reference_tables::valid_remark_type_number (not in src): the remark type
\* numbers of wwPDB v3.30 that fit the model's inputs.
valid_remark_type_number(number) == number \in (0..5) \cup {100, 200, 300}

RemarkItem(ln, line, r) ==
  IF r.kind # "Ok" THEN r
  ELSE IF ~valid_remark_type_number(r.v["number"])
  THEN Err(PDBError("StrictWarning", "Remark type number invalid",
                    ContextLine(ln, 7, 3)))
  ELSE IF Len(line) > 11 /\ Len(line) - 11 > 70
  THEN Err(PDBError("LooseWarning", "Remark too long",
                    ContextLine(ln, 11, Len(line) - 11)))
  ELSE [kind |-> "Remark", number |-> r.v["number"],
        text |-> IF Len(line) > 11 THEN SubSeq(line, 12, Len(line)) ELSE <<>>]

lex_remark(ln, line) ==
  RemarkItem(ln, line,
             ReadFields(line, ln, <<Num("number", "usize", 7, 10)>>, NoFields))

ModelItem(n) == IF n.ok THEN [kind |-> "Model", number |-> n.v] ELSE Err(n.err)

lex_model(ln, line) ==
  ModelItem(parse_number("usize", ContextLine(ln, 6, Len(line) - 6),
                         SubSeq(line, 7, Len(line))))

AtomMandatoryReads ==
  <<Num("serial_number", "usize", 7, 11),
    Char("name0", 12), Char("name1", 13), Char("name2", 14), Char("name3", 15),
    Char("alternate_location", 16),
    Char("res0", 17), Char("res1", 18), Char("res2", 19),
    Char("chain_id", 21),
    Num("residue_serial_number", "usize", 22, 26),
    Char("insertion", 26),
    Num("x", "f64", 30, 38), Num("y", "f64", 38, 46), Num("z", "f64", 46, 54)>>

AtomOptionalReads(n) ==
     (IF n >= 60 THEN <<Num("occupancy", "f64", 54, 60)>> ELSE <<>>)
  \o (IF n >= 66 THEN <<Num("b_factor", "f64", 60, 66)>> ELSE <<>>)
  \o (IF n >= 75 THEN <<Char("seg0", 72), Char("seg1", 73), Char("seg2", 74), Char("seg3", 75)>>
      ELSE <<>>)
  \o (IF n >= 77 THEN <<Char("el0", 76), Char("el1", 77)>> ELSE <<>>)

Get(v, name, default) == IF name \in DOMAIN v THEN v[name] ELSE default

\* The charge of lex_atom with the error of the digit scoped to the column of
\* the sign.
AtomChargeSignColumn(ln, chars) ==
  IF Len(chars) < 79 THEN [kind |-> "Ok", v |-> 0]
  ELSE IF chars[79] = " " /\ Len(chars) < 80 THEN Panic
  ELSE IF chars[79] = " " /\ chars[80] = " " THEN [kind |-> "Ok", v |-> 0]
  ELSE IF ~is_ascii_digit(chars[79])
  THEN Err(PDBError("BreakingError", "Atom charge is not correct",
                    ContextLine(ln, 79, 1)))
  ELSE IF Len(chars) < 80 THEN Panic
  ELSE IF chars[80] # "-" /\ chars[80] # "+"
  THEN Err(PDBError("BreakingError", "Atom charge is not correct",
                    ContextLine(ln, 79, 1)))
  ELSE [kind |-> "Ok",
        v |-> IF chars[80] = "-" THEN 0 - to_digit(chars[79]) ELSE to_digit(chars[79])]

\* The charge of lex_atom (lines 349-371), chars[78] and chars[79]:
\* [kind "Ok", v] | Err | Panic.
AtomCharge(ln, chars) ==
  IF Len(chars) < 79 THEN [kind |-> "Ok", v |-> 0]
  ELSE IF chars[79] = " " /\ Len(chars) < 80 THEN Panic
  ELSE IF chars[79] = " " /\ chars[80] = " " THEN [kind |-> "Ok", v |-> 0]
  ELSE IF ~is_ascii_digit(chars[79])
  THEN Err(PDBError("BreakingError", "Atom charge is not correct",
                    ContextLine(ln, 78, 1)))
  ELSE IF Len(chars) < 80 THEN Panic
  ELSE IF chars[80] # "-" /\ chars[80] # "+"
  THEN Err(PDBError("BreakingError", "Atom charge is not correct",
                    ContextLine(ln, 79, 1)))
  ELSE [kind |-> "Ok",
        v |-> IF chars[80] = "-" THEN 0 - to_digit(chars[79]) ELSE to_digit(chars[79])]

\* lines 373-390, or the error or panic of the reads before
AtomItem(r, c, hetero) ==
        IF r.kind # "Ok" THEN r
        ELSE IF c.kind # "Ok" THEN c
        ELSE [kind |-> "Atom",
              hetero |-> hetero,
              serial_number |-> r.v["serial_number"],
              name |-> <<r.v["name0"], r.v["name1"], r.v["name2"], r.v["name3"]>>,
              alternate_location |-> r.v["alternate_location"],
              residue_name |-> <<r.v["res0"], r.v["res1"], r.v["res2"]>>,
              chain_id |-> r.v["chain_id"],
              residue_serial_number |-> r.v["residue_serial_number"],
              insertion |-> r.v["insertion"],
              x |-> r.v["x"], y |-> r.v["y"], z |-> r.v["z"],
              occupancy |-> Get(r.v, "occupancy", F64(1, 0)),
              b_factor |-> Get(r.v, "b_factor", F64(0, 0)),
              segment_id |-> IF "seg0" \in DOMAIN r.v
                             THEN <<r.v["seg0"], r.v["seg1"], r.v["seg2"], r.v["seg3"]>>
                             ELSE <<" ", " ", " ", " ">>,
              element |-> IF "el0" \in DOMAIN r.v THEN <<r.v["el0"], r.v["el1"]>>
                          ELSE <<" ", " ">>,
              charge |-> c.v]

lex_atom(ln, line, hetero) ==
  IF Len(line) < 54
  THEN Err(PDBError("BreakingError", "Atom line too short",
                    ContextFullLine(ln, line)))
  ELSE AtomItem(ReadFields(line, ln,
                           AtomMandatoryReads \o AtomOptionalReads(Len(line)),
                           NoFields),
                AtomCharge(ln, line), hetero)

AnisouReads ==
  <<Num("serial_number", "usize", 7, 11),
    Char("name0", 12), Char("name1", 13), Char("name2", 14), Char("name3", 15),
    Char("alternate_location", 16),
    Char("res0", 17), Char("res1", 18), Char("res2", 19),
    Char("chain_id", 21),
    NumCtx("residue_serial_number", "usize", 22, 26, 10, 10),
    Char("insertion", 26),
    Num("ai", "isize", 28, 35), Num("bi", "isize", 35, 42), Num("ci", "isize", 42, 49),
    Num("di", "isize", 49, 56), Num("ei", "isize", 56, 63), Num("fi", "isize", 63, 70),
    Char("seg0", 72), Char("seg1", 73), Char("seg2", 74), Char("seg3", 75),
    Char("el0", 76), Char("el1", 77)>>

\* (i as f64) / 10000.0, as the exact decimal.
RECURSIVE Normalise(_, _)
Normalise(m, e) ==
  IF e > 0 /\ m % 10 = 0 THEN Normalise(m \div 10, e - 1) ELSE F64(m, e)

AnisouItem(r) ==
      IF r.kind # "Ok" THEN r
      ELSE [kind |-> "Anisou",
            serial_number |-> r.v["serial_number"],
            name |-> <<r.v["name0"], r.v["name1"], r.v["name2"], r.v["name3"]>>,
            factors |-> <<<<Normalise(r.v["ai"], 4), Normalise(r.v["bi"], 4),
                            Normalise(r.v["ci"], 4)>>,
                          <<Normalise(r.v["di"], 4), Normalise(r.v["ei"], 4),
                            Normalise(r.v["fi"], 4)>>>>]

lex_anisou(ln, line) ==
  AnisouItem(ReadFields(line, ln,
                        AnisouReads \o (IF Len(line) = 80
                                        THEN <<Char("ch0", 79), Char("ch1", 80)>>
                                        ELSE <<>>),
                        NoFields))

CrystReads ==
  <<Num("a", "f64", 6, 15), Num("b", "f64", 15, 24), Num("c", "f64", 24, 33),
    Num("alpha", "f64", 33, 40), Num("beta", "f64", 40, 47), Num("gamma", "f64", 47, 54)>>

Min(a, b) == IF a < b THEN a ELSE b

CrystItem(line, r, z) ==
  IF r.kind # "Ok" THEN r
  ELSE IF 55 > Min(66, Len(line)) THEN Panic
  ELSE IF ~z.ok THEN Err(z.err)
  ELSE [kind |-> "Crystal",
        cell |-> <<r.v["a"], r.v["b"], r.v["c"],
                   r.v["alpha"], r.v["beta"], r.v["gamma"]>>,
        spacegroup |-> SubSeq(line, 56, Min(66, Len(line))),
        z |-> z.v]

lex_cryst(ln, line) ==
  CrystItem(line, ReadFields(line, ln, CrystReads, NoFields),
            IF Len(line) > 66
            THEN parse_number("usize", ContextLine(ln, 66, Len(line) - 66),
                              SubSeq(line, 67, Len(line)))
            ELSE [ok |-> TRUE, v |-> 1, err |-> NoError])

RowReads ==
  <<Num("a", "f64", 10, 20), Num("b", "f64", 20, 30), Num("c", "f64", 30, 40),
    Num("d", "f64", 45, 55)>>

\* LexItem::Scale(row, [a, b, c, d]), or the error or panic of the reads
RowItem(kind, row, r) ==
  IF r.kind # "Ok" THEN r
  ELSE [kind |-> kind, n |-> row, row |-> <<r.v["a"], r.v["b"], r.v["c"], r.v["d"]>>]

lex_scale(ln, line, row) ==
  RowItem("Scale", row, ReadFields(line, ln, RowReads, NoFields))

lex_origx(ln, line, row) ==
  RowItem("OrigX", row, ReadFields(line, ln, RowReads, NoFields))

MtrixItem(line, row, r) ==
  IF r.kind # "Ok" THEN r
  ELSE [kind |-> "MtriX", n |-> row, ser |-> r.v["ser"],
        row |-> <<r.v["a"], r.v["b"], r.v["c"], r.v["d"]>>,
        given |-> Len(line) >= 60 /\ line[60] = "1"]

lex_mtrix(ln, line, row) ==
  MtrixItem(line, row,
            ReadFields(line, ln, <<NumCtx("ser", "usize", 7, 10, 7, 4)>> \o RowReads,
                       NoFields))

MasterReads ==
  <<Num("num_remark", "usize", 10, 15), Num("num_empty", "usize", 15, 20),
    Num("num_het", "usize", 20, 25), Num("num_helix", "usize", 25, 30),
    Num("num_sheet", "usize", 30, 35), Num("num_turn", "usize", 35, 40),
    Num("num_site", "usize", 40, 45), Num("num_xform", "usize", 45, 50),
    Num("num_coord", "usize", 50, 55), Num("num_ter", "usize", 55, 60),
    Num("num_connect", "usize", 60, 65), Num("num_seq", "usize", 65, 70)>>

MasterItem(r) ==
  IF r.kind # "Ok" THEN r
  ELSE [kind |-> "Master",
        num_remark |-> r.v["num_remark"], num_empty |-> r.v["num_empty"],
        num_xform |-> r.v["num_xform"], num_coord |-> r.v["num_coord"]]

lex_master(ln, line) == MasterItem(ReadFields(line, ln, MasterReads, NoFields))

\* The diagnostic of an unrecognised tag as a fatal one.
UnrecognisedTagBreaking(ln, line) ==
  Err(PDBError("BreakingError", "Could not recognise tag.", ContextFullLine(ln, line)))

UnrecognisedTag(ln, line) ==
  Err(PDBError("GeneralWarning", "Could not recognise tag.", ContextFullLine(ln, line)))

\* The dispatch on the tag, lines 42-75 of parse.
lineresult(ln, line) ==
  IF Len(line) > 6 THEN
    LET tag == SubSeq(line, 1, 6)
    IN  CASE tag = <<"R", "E", "M", "A", "R", "K">> -> lex_remark(ln, line)
          [] tag = <<"A", "T", "O", "M", " ", " ">> -> lex_atom(ln, line, FALSE)
          [] tag = <<"A", "N", "I", "S", "O", "U">> -> lex_anisou(ln, line)
          [] tag = <<"H", "E", "T", "A", "T", "M">> -> lex_atom(ln, line, TRUE)
          [] tag = <<"C", "R", "Y", "S", "T", "1">> -> lex_cryst(ln, line)
          [] tag = <<"S", "C", "A", "L", "E", "1">> -> lex_scale(ln, line, 0)
          [] tag = <<"S", "C", "A", "L", "E", "2">> -> lex_scale(ln, line, 1)
          [] tag = <<"S", "C", "A", "L", "E", "3">> -> lex_scale(ln, line, 2)
          [] tag = <<"O", "R", "I", "G", "X", "1">> -> lex_origx(ln, line, 0)
          [] tag = <<"O", "R", "I", "G", "X", "2">> -> lex_origx(ln, line, 1)
          [] tag = <<"O", "R", "I", "G", "X", "3">> -> lex_origx(ln, line, 2)
          [] tag = <<"M", "T", "R", "I", "X", "1">> -> lex_mtrix(ln, line, 0)
          [] tag = <<"M", "T", "R", "I", "X", "2">> -> lex_mtrix(ln, line, 1)
          [] tag = <<"M", "T", "R", "I", "X", "3">> -> lex_mtrix(ln, line, 2)
          [] tag = <<"M", "O", "D", "E", "L", " ">> -> lex_model(ln, line)
          [] tag = <<"M", "A", "S", "T", "E", "R">> -> lex_master(ln, line)
          [] tag = <<"E", "N", "D", "M", "D", "L">> -> [kind |-> "EndModel"]
          [] tag = <<"T", "E", "R", " ", " ", " ">> -> [kind |-> "TER"]
          [] tag = <<"E", "N", "D", " ", " ", " ">> -> [kind |-> "End"]
          [] OTHER -> UnrecognisedTag(ln, line)
  ELSE IF Len(line) > 2 THEN
    LET tag == SubSeq(line, 1, 3)
    IN  CASE tag = <<"T", "E", "R">> -> [kind |-> "TER"]
          [] tag = <<"E", "N", "D">> -> [kind |-> "End"]
          [] OTHER -> UnrecognisedTag(ln, line)
  ELSE IF line # <<>> THEN UnrecognisedTag(ln, line)
  ELSE [kind |-> "Empty"]

-----------------------------------------------------------------------------
(* The structures: Atom, Residue, Chain (not in src) and Model (model.rs)    *)

\* Atom::new; the anisotropic temperature factors are None (<<>>) at first.
\* line is history: the number of the input line the atom was decoded from.
AtomNew(serial_number, name, x, y, z, occ, b, element, charge, line) ==
  [serial_number |-> serial_number, name |-> name, x |-> x, y |-> y, z |-> z,
   occupancy |-> occ, b_factor |-> b, element |-> element, charge |-> charge,
   atf |-> <<>>, line |-> line]

RECURSIVE SumLen(_)
SumLen(ss) == IF ss = <<>> THEN 0 ELSE Len(Head(ss)) + SumLen(Tail(ss))

RECURSIVE Flatten(_)
Flatten(ss) == IF ss = <<>> THEN <<>> ELSE Head(ss) \o Flatten(Tail(ss))

\* Chain::atom_count, Chain::atoms
ChainAtomCount(chain) == SumLen([i \in 1..Len(chain.residues) |-> chain.residues[i].atoms])
ChainAtoms(chain) == Flatten([i \in 1..Len(chain.residues) |-> chain.residues[i].atoms])

\* Chain::new(id)
ChainNew(id) == [id |-> id, residues |-> <<>>]

\* Chain::add_atom that finds the residue by its serial number and its name.
ChainAddAtomByName(chain, new_atom, residue_serial_number, residue_name) ==
  LET found == {i \in 1..Len(chain.residues) :
                  /\ chain.residues[i].serial_number = residue_serial_number
                  /\ chain.residues[i].name = residue_name}
  IN  IF found # {}
      THEN LET i == CHOOSE i \in found : \A j \in found : i <= j
           IN  [chain EXCEPT !.residues[i].atoms = Append(@, new_atom)]
      ELSE [chain EXCEPT !.residues =
              Append(@, [serial_number |-> residue_serial_number,
                         name |-> residue_name,
                         atoms |-> <<new_atom>>])]

\* Chain::add_atom(new_atom, residue_serial_number, residue_name): the residue
\* is found by its serial number alone, or created and appended.
ChainAddAtom(chain, new_atom, residue_serial_number, residue_name) ==
  LET found == {i \in 1..Len(chain.residues) :
                  chain.residues[i].serial_number = residue_serial_number}
  IN  IF found # {}
      THEN LET i == CHOOSE i \in found : \A j \in found : i <= j
           IN  [chain EXCEPT !.residues[i].atoms = Append(@, new_atom)]
      ELSE [chain EXCEPT !.residues =
              Append(@, [serial_number |-> residue_serial_number,
                         name |-> residue_name,
                         atoms |-> <<new_atom>>])]

\* Model::new
ModelNew(serial_number) ==
  [serial_number |-> serial_number, chains |-> <<>>, hetero_chains |-> <<>>]

RECURSIVE SumSeq(_)
SumSeq(ns) == IF ns = <<>> THEN 0 ELSE Head(ns) + SumSeq(Tail(ns))

\* Model::all_chains: the chains, then the hetero chains.
all_chains(m) == m.chains \o m.hetero_chains

\* Model::atom_count: this disregards all hetero atoms.
atom_count(m) == SumSeq([i \in 1..Len(m.chains) |-> ChainAtomCount(m.chains[i])])

\* Model::total_atom_count
total_atom_count(m) ==
  SumSeq([i \in 1..Len(all_chains(m)) |-> ChainAtomCount(all_chains(m)[i])])

\* Model::all_atoms
all_atoms(m) == Flatten([i \in 1..Len(all_chains(m)) |-> ChainAtoms(all_chains(m)[i])])

\* The upsert that looks at the last chain only (found is lost for the others).
UpsertChainLastOnly(chains, new_atom, chain_id, residue_serial_number, residue_name) ==
  IF chains # <<>> /\ chains[Len(chains)].id = chain_id
  THEN [chains EXCEPT ![Len(chains)] =
          ChainAddAtom(@, new_atom, residue_serial_number, residue_name)]
  ELSE Append(chains, ChainAddAtom(ChainNew(chain_id), new_atom,
                                   residue_serial_number, residue_name))

\* The upsert that inserts a new chain at the front of the partition.
UpsertChainFront(chains, new_atom, chain_id, residue_serial_number, residue_name) ==
  LET found == {i \in 1..Len(chains) : chains[i].id = chain_id}
  IN  IF found # {}
      THEN LET i == CHOOSE i \in found : \A j \in found : i <= j
           IN  [chains EXCEPT ![i] = ChainAddAtom(@, new_atom, residue_serial_number,
                                                  residue_name)]
      ELSE <<ChainAddAtom(ChainNew(chain_id), new_atom,
                          residue_serial_number, residue_name)>> \o chains

\* The body shared by add_atom and add_hetero_atom: the first chain of the
\* partition with the id, or a new chain pushed at its end.
UpsertChain(chains, new_atom, chain_id, residue_serial_number, residue_name) ==
  LET found == {i \in 1..Len(chains) : chains[i].id = chain_id}
  IN  IF found # {}
      THEN LET i == CHOOSE i \in found : \A j \in found : i <= j
           IN  [chains EXCEPT ![i] = ChainAddAtom(@, new_atom, residue_serial_number,
                                                  residue_name)]
      ELSE Append(chains, ChainAddAtom(ChainNew(chain_id), new_atom,
                                       residue_serial_number, residue_name))

\* Model::add_atom
add_atom(m, new_atom, chain_id, residue_serial_number, residue_name) ==
  [m EXCEPT !.chains =
     UpsertChain(@, new_atom, chain_id, residue_serial_number, residue_name)]

\* add_hetero_atom that searches and pushes to the chains of add_atom.
add_hetero_atom_to_chains(m, new_atom, chain_id, residue_serial_number, residue_name) ==
  [m EXCEPT !.chains =
     UpsertChain(@, new_atom, chain_id, residue_serial_number, residue_name)]

\* Model::add_hetero_atom
add_hetero_atom(m, new_atom, chain_id, residue_serial_number, residue_name) ==
  [m EXCEPT !.hetero_chains =
     UpsertChain(@, new_atom, chain_id, residue_serial_number, residue_name)]

\* remove(index) of a Vec
RemoveAt(seq, i) == SubSeq(seq, 1, i - 1) \o SubSeq(seq, i + 1, Len(seq))

\* Model::remove_chain(index), index 0-based; panics outside bounds.
remove_chain(m, index) == [m EXCEPT !.chains = RemoveAt(@, index + 1)]

\* Model::remove_chain_id: [m, ret]
remove_chain_id_last(m, id) ==
  LET found == {i \in 1..Len(m.chains) : m.chains[i].id = id}
  IN  IF found # {}
      THEN [m |-> remove_chain(m, (CHOOSE i \in found : \A j \in found : i >= j) - 1),
            ret |-> TRUE]
      ELSE [m |-> m, ret |-> FALSE]

remove_chain_id(m, id) ==
  LET found == {i \in 1..Len(m.chains) : m.chains[i].id = id}
  IN  IF found # {}
      THEN [m |-> remove_chain(m, (CHOOSE i \in found : \A j \in found : i <= j) - 1),
            ret |-> TRUE]
      ELSE [m |-> m, ret |-> FALSE]

\* Model::join: the chains of the other Model are appended, partition by
\* partition, with no search for a chain of the same id.
join(m, other) ==
  [m EXCEPT !.chains = @ \o other.chains,
            !.hetero_chains = @ \o other.hetero_chains]

-----------------------------------------------------------------------------
(* PDB and the transformation matrices (not in src)                          *)

\* Scale::new / OrigX::new / MtriX::new: the identity, no row set yet.
Identity == <<<<F64(1, 0), F64(0, 0), F64(0, 0), F64(0, 0)>>,
              <<F64(0, 0), F64(1, 0), F64(0, 0), F64(0, 0)>>,
              <<F64(0, 0), F64(0, 0), F64(1, 0), F64(0, 0)>>>>

MatrixNew ==
  [factors |-> Identity, rows_set |-> <<FALSE, FALSE, FALSE>>,
   serial_number |-> 0, contained |-> FALSE]

\* set_row(row, data), row 0-based
set_row(mx, row, data) ==
  [mx EXCEPT !.factors[row + 1] = data, !.rows_set[row + 1] = TRUE]

\* valid(): all three rows have been set
valid(mx) == \A r \in 1..3 : mx.rows_set[r]

\* PDB::new: an Option is a sequence of length 0 or 1.
PDBNew ==
  [models |-> <<>>, remarks |-> <<>>, scale |-> <<>>, origx |-> <<>>, mtrix |-> <<>>,
   unit_cell |-> <<>>, symmetry |-> <<>>]

has_scale(p) == p.scale # <<>>
has_origx(p) == p.origx # <<>>
remark_count(p) == Len(p.remarks)
add_remark(p, num, text) == [p EXCEPT !.remarks = Append(@, <<num, text>>)]
add_model(p, m) == [p EXCEPT !.models = Append(@, m)]

\* PDB::total_atom_count: over all models, both partitions
pdb_total_atom_count(p) ==
  SumSeq([i \in 1..Len(p.models) |-> total_atom_count(p.models[i])])

RECURSIVE Trim(_)
Trim(s) ==
  IF s # <<>> /\ Head(s) = " " THEN Trim(Tail(s))
  ELSE IF s # <<>> /\ s[Len(s)] = " " THEN Trim(SubSeq(s, 1, Len(s) - 1))
  ELSE s

\* Symmetry::new(&spacegroup): Some for a space group of the reference table.
SymmetryNew(spacegroup) ==
  IF Trim(spacegroup) \in {<<"P", " ", "1">>, <<"P", " ", "2">>}
  THEN <<Trim(spacegroup)>> ELSE <<>>

\* validate(&pdb) (not in src): some non-fatal diagnostics.
ValidateOutputs(p) ==
  {<<>>, <<PDBError("StrictWarning", "Validation", ContextShow)>>}

-----------------------------------------------------------------------------
(* parse: the fold of one lexed record into the state b =                    *)
(* [pdb, current_model, errors, acc, model_acc, panic]                       *)

\* lines 80
HandleRemark(b, it) == [b EXCEPT !.pdb = add_remark(@, it.number, it.text)]

\* lines 81-112
HandleAtom(b, it, ln) ==
  LET atom == AtomNew(it.serial_number, it.name, it.x, it.y, it.z, it.occupancy,
                      it.b_factor, it.element, it.charge, ln)
  IN  IF it.hetero
      THEN [b EXCEPT !.current_model =
              add_hetero_atom(@, atom, it.chain_id, it.residue_serial_number,
                              it.residue_name)]
      ELSE [b EXCEPT !.current_model =
              add_atom(@, atom, it.chain_id, it.residue_serial_number, it.residue_name)]

\* The atoms of a model with f applied to the atom at position k of all_atoms.
SetAtfAt(m, k, factors) ==
  LET SetChains(chains, offset) ==
        [c \in 1..Len(chains) |->
          [chains[c] EXCEPT !.residues =
            [r \in 1..Len(chains[c].residues) |->
              [chains[c].residues[r] EXCEPT !.atoms =
                [a \in 1..Len(chains[c].residues[r].atoms) |->
                  LET before ==
                        offset
                        + SumSeq([i \in 1..(c - 1) |-> ChainAtomCount(chains[i])])
                        + SumLen([i \in 1..(r - 1) |-> chains[c].residues[i].atoms])
                  IN  IF before + a = k
                      THEN [chains[c].residues[r].atoms[a] EXCEPT !.atf = <<factors>>]
                      ELSE chains[c].residues[r].atoms[a]]]]]]
  IN  [m EXCEPT !.chains = SetChains(m.chains, 0),
                !.hetero_chains = SetChains(m.hetero_chains, atom_count(m))]

\* HandleAnisou that pushes a diagnostic when it finds no atom.
HandleAnisouWarns(b, it) ==
  LET atoms == all_atoms(b.current_model)
      hits == {k \in 1..Len(atoms) : atoms[k].serial_number = it.serial_number}
  IN  IF hits # {}
      THEN [b EXCEPT !.current_model =
              SetAtfAt(@, CHOOSE k \in hits : \A j \in hits : j <= k, it.factors)]
      ELSE [b EXCEPT !.errors =
              Append(@, PDBError("LooseWarning", "Could not find atom", ContextShow))]

\* lines 113-129: all_atoms_mut().rev(), the first atom with the serial number
HandleAnisou(b, it) ==
  LET atoms == all_atoms(b.current_model)
      hits == {k \in 1..Len(atoms) : atoms[k].serial_number = it.serial_number}
  IN  IF hits # {}
      THEN [b EXCEPT !.current_model =
              SetAtfAt(@, CHOOSE k \in hits : \A j \in hits : j <= k, it.factors)]
      ELSE b

\* lines 130-136
HandleModel(b, it) ==
  LET pushed == IF atom_count(b.current_model) > 0
                THEN [b EXCEPT !.pdb = add_model(@, b.current_model),
                               !.model_acc = Append(@, b.acc)]
                ELSE b
  IN  [pushed EXCEPT !.current_model = ModelNew(it.number), !.acc = @ + 1]

\* HandleScale that sets a new Scale at every record.
HandleScaleNew(b, it) ==
  [b EXCEPT !.pdb.scale = <<set_row(MatrixNew, it.n, it.row)>>]

\* lines 137-142
HandleScale(b, it) ==
  LET p == IF ~has_scale(b.pdb) THEN [b.pdb EXCEPT !.scale = <<MatrixNew>>] ELSE b.pdb
  IN  [b EXCEPT !.pdb = [p EXCEPT !.scale[1] = set_row(@, it.n, it.row)]]

\* lines 143-148
HandleOrigX(b, it) ==
  LET p == IF ~has_origx(b.pdb) THEN [b.pdb EXCEPT !.origx = <<MatrixNew>>] ELSE b.pdb
  IN  [b EXCEPT !.pdb = [p EXCEPT !.origx[1] = set_row(@, it.n, it.row)]]

\* HandleMtriX that adds a new matrix for every row record.
HandleMtriXNew(b, it) ==
  [b EXCEPT !.pdb.mtrix =
     Append(@, [set_row([MatrixNew EXCEPT !.serial_number = it.ser],
                        it.n, it.row) EXCEPT !.contained = it.given])]

\* lines 149-166
HandleMtriX(b, it) ==
  LET found == {i \in 1..Len(b.pdb.mtrix) : b.pdb.mtrix[i].serial_number = it.ser}
  IN  IF found # {}
      THEN LET i == CHOOSE i \in found : \A j \in found : i <= j
           IN  [b EXCEPT !.pdb.mtrix[i] =
                  [set_row(@, it.n, it.row) EXCEPT !.contained = it.given]]
      ELSE [b EXCEPT !.pdb.mtrix =
              Append(@, [set_row([MatrixNew EXCEPT !.serial_number = it.ser],
                                 it.n, it.row) EXCEPT !.contained = it.given])]

\* lines 167-173: an unknown space group panics
HandleCrystal(b, it) ==
  IF SymmetryNew(it.spacegroup) = <<>> THEN [b EXCEPT !.panic = TRUE]
  ELSE [b EXCEPT !.pdb.unit_cell = <<it.cell>>,
                 !.pdb.symmetry = SymmetryNew(it.spacegroup)]

MasterError(level, about, actual, declared) ==
  [PDBError(level, "MASTER checksum failed", ContextShow)
     EXCEPT !.about = about, !.actual = actual, !.declared = declared]

\* MasterPush without its guard: an empty accumulator is pushed too.
MasterPushUnguarded(b) ==
  [b EXCEPT !.pdb = add_model(@, b.current_model),
            !.model_acc = Append(@, b.acc),
            !.current_model = ModelNew(0),
            !.acc = @ + 1]

\* MasterPush that keeps the accumulator it pushed (a clone is pushed).
MasterPushKeeps(b) ==
  IF total_atom_count(b.current_model) > 0
  THEN [b EXCEPT !.pdb = add_model(@, b.current_model),
                 !.model_acc = Append(@, b.acc)]
  ELSE b

\* lines 188-192
MasterPush(b) ==
  IF total_atom_count(b.current_model) > 0
  THEN [b EXCEPT !.pdb = add_model(@, b.current_model),
                 !.model_acc = Append(@, b.acc),
                 !.current_model = ModelNew(0),
                 !.acc = @ + 1]
  ELSE b

\* The tally that counts a matrix as soon as it is there.
XformPresent(p) ==
    (IF has_origx(p) THEN 3 ELSE 0)
  + (IF has_scale(p) THEN 3 ELSE 0)
  + 3 * Len(p.mtrix)

\* lines 214-225
Xform(p) ==
    (IF has_origx(p) /\ valid(p.origx[1]) THEN 3 ELSE 0)
  + (IF has_scale(p) /\ valid(p.scale[1]) THEN 3 ELSE 0)
  + 3 * Cardinality({i \in 1..Len(p.mtrix) : valid(p.mtrix[i])})

\* MasterErrors without the comparison of the number of remarks.
MasterErrorsNoRemarks(p, it) ==
     (IF it.num_empty # 0
      THEN <<MasterError("LooseWarning", "empty", it.num_empty, 0)>>
      ELSE <<>>)
  \o (IF it.num_xform # Xform(p)
      THEN <<MasterError("StrictWarning", "xform", Xform(p), it.num_xform)>>
      ELSE <<>>)
  \o (IF it.num_coord # pdb_total_atom_count(p)
      THEN <<MasterError("StrictWarning", "Atoms", pdb_total_atom_count(p), it.num_coord)>>
      ELSE <<>>)

\* lines 194-245
MasterErrors(p, it) ==
     (IF it.num_remark # remark_count(p)
      THEN <<MasterError("StrictWarning", "REMARKS", remark_count(p), it.num_remark)>>
      ELSE <<>>)
  \o (IF it.num_empty # 0
      THEN <<MasterError("LooseWarning", "empty", it.num_empty, 0)>>
      ELSE <<>>)
  \o (IF it.num_xform # Xform(p)
      THEN <<MasterError("StrictWarning", "xform", Xform(p), it.num_xform)>>
      ELSE <<>>)
  \o (IF it.num_coord # pdb_total_atom_count(p)
      THEN <<MasterError("StrictWarning", "Atoms", pdb_total_atom_count(p), it.num_coord)>>
      ELSE <<>>)

\* HandleMaster that compares before it pushes the current model.
HandleMasterCheckFirst(b, it) ==
  [MasterPush(b) EXCEPT !.errors = @ \o MasterErrors(b.pdb, it)]

\* lines 174-246
HandleMaster(b, it) ==
  LET pushed == MasterPush(b)
  IN  [pushed EXCEPT !.errors = @ \o MasterErrors(pushed.pdb, it)]

\* AddLine that puts the error of a line before the diagnostics collected.
AddLineErrorFirst(b, r, ln) ==
  CASE r.kind = "Error" -> [b EXCEPT !.errors = <<r.err>> \o @]
    [] r.kind = "Panic" -> [b EXCEPT !.panic = TRUE]
    [] r.kind = "Remark" -> HandleRemark(b, r)
    [] r.kind = "Atom" -> HandleAtom(b, r, ln)
    [] r.kind = "Anisou" -> HandleAnisou(b, r)
    [] r.kind = "Model" -> HandleModel(b, r)
    [] r.kind = "Scale" -> HandleScale(b, r)
    [] r.kind = "OrigX" -> HandleOrigX(b, r)
    [] r.kind = "MtriX" -> HandleMtriX(b, r)
    [] r.kind = "Crystal" -> HandleCrystal(b, r)
    [] r.kind = "Master" -> HandleMaster(b, r)
    [] OTHER -> b

\* lines 78-251: the record of line ln folded into b
AddLine(b, r, ln) ==
  CASE r.kind = "Error" -> [b EXCEPT !.errors = Append(@, r.err)]
    [] r.kind = "Panic" -> [b EXCEPT !.panic = TRUE]
    [] r.kind = "Remark" -> HandleRemark(b, r)
    [] r.kind = "Atom" -> HandleAtom(b, r, ln)
    [] r.kind = "Anisou" -> HandleAnisou(b, r)
    [] r.kind = "Model" -> HandleModel(b, r)
    [] r.kind = "Scale" -> HandleScale(b, r)
    [] r.kind = "OrigX" -> HandleOrigX(b, r)
    [] r.kind = "MtriX" -> HandleMtriX(b, r)
    [] r.kind = "Crystal" -> HandleCrystal(b, r)
    [] r.kind = "Master" -> HandleMaster(b, r)
    [] OTHER -> b

\* lines 253-255
EndPush(b) ==
  IF total_atom_count(b.current_model) > 0
  THEN [b EXCEPT !.pdb = add_model(@, b.current_model), !.model_acc = Append(@, b.acc)]
  ELSE b

-----------------------------------------------------------------------------
(* The input lines                                                           *)

\* A line of len characters: blanks, with each text of fields = <<column, text>>
\* written from its (0-based) column on and cut at the end of the line.
Place(len, fields) ==
  [i \in 1..len |->
     LET hits == {k \in 1..Len(fields) :
                    fields[k][1] < i /\ i <= fields[k][1] + Len(fields[k][2])}
     IN  IF hits = {} THEN " "
         ELSE LET k == CHOOSE k \in hits : TRUE IN fields[k][2][i - fields[k][1]]]

TagATOM == <<"A", "T", "O", "M", " ", " ">>
TagHETATM == <<"H", "E", "T", "A", "T", "M">>
TagMODEL == <<"M", "O", "D", "E", "L", " ">>
TagMASTER == <<"M", "A", "S", "T", "E", "R">>
TagREMARK == <<"R", "E", "M", "A", "R", "K">>
TagANISOU == <<"A", "N", "I", "S", "O", "U">>
TagCRYST1 == <<"C", "R", "Y", "S", "T", "1">>
TagSCALE == <<"S", "C", "A", "L", "E">>
TagORIGX == <<"O", "R", "I", "G", "X">>
TagMTRIX == <<"M", "T", "R", "I", "X">>

\* An ATOM / HETATM line: serial number, chain id, residue number and name, x.
AtomText(tag, serial, chain, resseq, resname, x, len) ==
  Place(len, <<<<0, tag>>, <<7, serial>>, <<12, <<" ", "C", "A", " ">>>>,
               <<17, resname>>, <<21, <<chain>>>>, <<22, resseq>>,
               <<30, x>>,
               <<38, <<" ", " ", "-", "2", ".", "2", "5", "0">>>>,
               <<46, <<" ", " ", " ", "0", ".", "0", "0", "0">>>>,
               <<54, <<" ", " ", "1", ".", "0", "0">>>>,
               <<60, <<" ", "1", "2", ".", "5", "0">>>>,
               <<76, <<" ", "C">>>>>>)

X15 == <<" ", " ", " ", "1", ".", "5", "0", "0">>
XBad == <<" ", " ", " ", "1", ".", "x", "0", "0">>
ALA == <<"A", "L", "A">>

\* A MASTER line declaring num_remark, num_xform and num_coord (one digit each).
MasterText(num_remark, num_xform, num_coord, len) ==
  Place(len, <<<<0, TagMASTER>>,
               <<14, <<num_remark>>>>, <<19, <<"0">>>>, <<24, <<"0">>>>, <<29, <<"0">>>>,
               <<34, <<"0">>>>, <<39, <<"0">>>>, <<44, <<"0">>>>, <<49, <<num_xform>>>>,
               <<54, <<num_coord>>>>, <<59, <<"0">>>>, <<64, <<"0">>>>,
               <<69, <<"0">>>>>>)

ModelText(number, len) == Place(len, <<<<0, TagMODEL>>, <<13, <<number>>>>>>)

RemarkText(number, len) ==
  Place(len, <<<<0, TagREMARK>>, <<9, <<number>>>>, <<11, <<"t", "e", "x", "t">>>>>>)

\* A SCALEn / ORIGXn / MTRIXn row line: the matrix tag, n, and the values
\* a, b, c, d each written as one digit and ".5".
RowText(tag, n, ser, a, d, len) ==
  Place(len, <<<<0, tag>>, <<5, <<n>>>>, <<9, <<ser>>>>,
               <<16, <<a, ".", "5">>>>, <<26, <<"0", ".", "0">>>>,
               <<36, <<"1", ".", "0">>>>, <<51, <<d, ".", "2", "5">>>>,
               <<59, <<"1">>>>>>)

\* An ANISOU line for the atom with the serial number, u[0][0] = u00 / 10000.
AnisouText(serial, u00, len) ==
  Place(len, <<<<0, TagANISOU>>, <<7, serial>>, <<12, <<" ", "C", "A", " ">>>>,
               <<17, <<"A", "L", "A">>>>, <<21, <<"A">>>>, <<22, <<"1">>>>,
               <<31, u00>>, <<41, <<"0">>>>, <<48, <<"0">>>>, <<55, <<"0">>>>,
               <<62, <<"0">>>>, <<69, <<"0">>>>, <<76, <<" ", "C">>>>>>)

CrystText(len) ==
  Place(len, <<<<0, TagCRYST1>>, <<11, <<"1", ".", "0">>>>, <<20, <<"1", ".", "0">>>>,
               <<29, <<"1", ".", "0">>>>, <<36, <<"9", "0">>>>, <<43, <<"9", "0">>>>,
               <<50, <<"9", "0">>>>, <<55, <<"P", " ", "1">>>>>>)

EndText == <<"E", "N", "D">>
UnknownText == <<"F", "O", "O", "B", "A", "R", " ", "1">>

\* The lines of the build specification: atoms, models, checksums, a fatal
\* line, an unrecognised tag.
BuildLines ==
  { AtomText(TagATOM, <<"1">>, "A", <<"1">>, ALA, X15, 80),
    AtomText(TagHETATM, <<"2">>, "A", <<"1">>, ALA, X15, 80),
    ModelText("1", 14),
    MasterText("0", "0", "1", 70),
    MasterText("1", "0", "2", 70),
    AtomText(TagATOM, <<"3">>, "A", <<"1">>, ALA, X15, 40),
    AtomText(TagATOM, <<"4">>, "A", <<"1">>, ALA, XBad, 80),
    EndText,
    UnknownText }

\* The lines of the scale specification.
ScaleLines ==
  { RowText(TagSCALE, "1", " ", "1", "0", 55),
    RowText(TagSCALE, "1", " ", "2", "7", 55),
    RowText(TagSCALE, "2", " ", "3", "0", 55),
    RowText(TagSCALE, "3", " ", "4", "0", 55),
    RowText(TagSCALE, "3", " ", "x", "0", 55),
    RowText(TagORIGX, "1", " ", "5", "0", 55) }

\* The lines of the short-line specification: for every record kind a line
\* with the tag that ends before the last column its lexer reads, and some
\* lines of full length.
ShortLines ==
  { Place(7, <<<<0, TagREMARK>>>>),
    AtomText(TagATOM, <<"1">>, "A", <<"1">>, ALA, X15, 40),
    AnisouText(<<"1">>, <<"2", "5", "0">>, 60),
    CrystText(20),
    RowText(TagSCALE, "1", " ", "1", "0", 20),
    RowText(TagORIGX, "1", " ", "1", "0", 40),
    RowText(TagMTRIX, "1", "1", "1", "0", 8),
    ModelText("1", 7),
    MasterText("0", "0", "1", 30),
    RemarkText("1", 15),
    RowText(TagSCALE, "1", " ", "1", "0", 55),
    AtomText(TagATOM, <<"1">>, "A", <<"1">>, ALA, X15, 80),
    ModelText("1", 14) }

\* The line with the text written over it from the (0-based) column on.
With(line, column, text) ==
  [i \in 1..Len(line) |->
     IF column < i /\ i <= column + Len(text) THEN text[i - column] ELSE line[i]]

\* The lines of the charge specification: ATOM lines of 80 characters with
\* these two characters in the columns 78 and 79.
ChargePairs ==
  { <<" ", " ">>, <<"1", "+">>, <<"2", "-">>, <<"0", "-">>, <<"+", "-">>, <<"x", "+">>,
    <<" ", "+">>, <<"1", " ">>, <<"1", "x">> }

ChargeLines ==
  { With(AtomText(TagATOM, <<"1">>, "A", <<"1">>, ALA, X15, 80), 78, pair) :
      pair \in ChargePairs }

\* The lines of the length specification: one ATOM line with all the optional
\* fields (occupancy 0.50, b factor 12.50, segment SEG1, element C, charge
\* 1+), cut at each of these lengths.
AtomLengths == {54, 59, 60, 66, 72, 75, 76, 77, 78, 79, 80, 81}

FullAtomLine ==
  With(With(With(AtomText(TagATOM, <<"1">>, "A", <<"1">>, ALA, X15, 81),
                 54, <<" ", " ", "0", ".", "5", "0">>),
            72, <<"S", "E", "G", "1">>),
       78, <<"1", "+">>)

LengthLines == {SubSeq(FullAtomLine, 1, n) : n \in AtomLengths}

\* The lines of the tag specification: lines with a tag parse does not know,
\* of more than 6, of 3 and of 1 character, an empty line, and lines it knows.
UnknownLines == {UnknownText, <<"F", "O", "O">>, <<"X">>}

TagLines ==
  UnknownLines \cup
  { <<>>,
    <<"T", "E", "R">>,
    AtomText(TagATOM, <<"1">>, "A", <<"1">>, ALA, X15, 80),
    ModelText("1", 14),
    MasterText("0", "0", "1", 70) }

\* The lines of the anisou specification: atoms with the serial number 1 in
\* two chains and in both partitions, ANISOU records for the serial numbers 1
\* and 2, and a MODEL record.
AnisouLines ==
  { AtomText(TagATOM, <<"1">>, "A", <<"1">>, ALA, X15, 80),
    AtomText(TagATOM, <<"1">>, "B", <<"1">>, ALA, X15, 80),
    AtomText(TagHETATM, <<"1">>, "A", <<"1">>, ALA, X15, 80),
    AnisouText(<<"1">>, <<"2", "5", "0">>, 78),
    AnisouText(<<"2">>, <<"2", "5", "0">>, 78),
    ModelText("1", 14) }

\* The files of the xform specification, line by line: the rows of the scale
\* and origx matrices and of the mtrix matrices 1 and 2, and MASTER records
\* declaring 0, 3 or 6 transformation records.
XformLinesAt(n) ==
  CASE n = 1 -> { RowText(TagSCALE, "1", " ", "1", "0", 55),
                  RowText(TagORIGX, "1", " ", "1", "0", 55) }
    [] n = 2 -> { RowText(TagSCALE, "2", " ", "1", "0", 55),
                  RowText(TagORIGX, "2", " ", "1", "0", 55) }
    [] n = 3 -> { RowText(TagSCALE, "3", " ", "1", "0", 55),
                  RowText(TagORIGX, "3", " ", "1", "0", 55),
                  RowText(TagSCALE, "2", " ", "2", "0", 55) }
    [] n = 4 -> { RowText(TagMTRIX, "1", "1", "1", "0", 60),
                  RowText(TagORIGX, "1", " ", "1", "0", 55),
                  MasterText("0", "3", "0", 70),
                  MasterText("0", "0", "0", 70) }
    [] n = 5 -> { RowText(TagMTRIX, "2", "1", "1", "0", 60),
                  RowText(TagMTRIX, "1", "2", "1", "0", 60),
                  RowText(TagORIGX, "2", " ", "1", "0", 55) }
    [] n = 6 -> { RowText(TagMTRIX, "3", "1", "1", "0", 60),
                  RowText(TagMTRIX, "3", "2", "1", "0", 60),
                  RowText(TagORIGX, "3", " ", "1", "0", 55) }
    [] OTHER -> { MasterText("0", "6", "0", 70),
                  MasterText("0", "3", "0", 70),
                  MasterText("0", "0", "0", 70) }

\* The lines of the reconciliation specification: a remark, an atom, the rows
\* of the scale matrix, and MASTER records declaring one remark, three
\* transformation records and one atom, or none of each.
ReconLines ==
  { RemarkText("1", 15),
    AtomText(TagATOM, <<"1">>, "A", <<"1">>, ALA, X15, 80),
    RowText(TagSCALE, "1", " ", "1", "0", 55),
    RowText(TagSCALE, "2", " ", "1", "0", 55),
    RowText(TagSCALE, "3", " ", "1", "0", 55),
    MasterText("1", "3", "1", 70),
    MasterText("0", "0", "0", 70) }

\* The lines of the mtrix specification: rows of the matrices with the serial
\* numbers 1 and 2, the row 1 of matrix 1 with two different values.
MtrixLines ==
  { RowText(TagMTRIX, "1", "1", "1", "0", 60),
    RowText(TagMTRIX, "1", "1", "2", "7", 60),
    RowText(TagMTRIX, "2", "1", "3", "0", 60),
    RowText(TagMTRIX, "3", "1", "4", "0", 60),
    RowText(TagMTRIX, "1", "2", "5", "0", 60),
    RowText(TagMTRIX, "2", "2", "6", "0", 55) }

\* The lines of the dispatch specification: lines of 0, 1, 3, 4, 6, 7 and 8
\* characters, with tags of 3 and of 6 characters parse knows and does not know.
DispatchLines ==
  { <<>>,
    <<"X">>,
    <<"F", "O", "O">>,
    <<"T", "E", "R">>,
    <<"E", "N", "D", "M">>,
    <<"E", "N", "D", "M", "D", "L">>,
    <<"E", "N", "D", "M", "D", "L", " ">>,
    <<"T", "E", "R", " ", " ", " ">>,
    TagATOM,
    <<"F", "O", "O", "B", "A", "R">>,
    UnknownText }

Lines(m) ==
  CASE m = "build" -> BuildLines
    [] m = "dispatch" -> DispatchLines
    [] m = "mtrix" -> MtrixLines
    [] m = "recon" -> ReconLines
    [] m = "anisou" -> AnisouLines
    [] m = "tags" -> TagLines
    [] m = "charge" -> ChargeLines
    [] m = "length" -> LengthLines
    [] m = "scale" -> ScaleLines
    [] m = "short" -> ShortLines
    [] OTHER -> {}

\* The lines line n of the file is drawn from, and the longest file.
LinesAt(m, n) == IF m = "xform" THEN XformLinesAt(n) ELSE Lines(m)
LineBound(m) == IF m = "xform" THEN MaxXformLines ELSE MaxLines

-----------------------------------------------------------------------------
(* parse as a state machine                                                  *)

InitParse(m) ==
  /\ menu = m
  /\ linenumber = 0
  /\ pdb = PDBNew
  /\ current_model = ModelNew(0)
  /\ errors = <<>>
  /\ outcome = "reading"
  /\ returned = NoError
  /\ items = <<>>
  /\ lines = <<>>
  /\ acc = 1
  /\ model_acc = <<>>
  /\ model = ModelNew(0)
  /\ calls = <<>>

Init == InitParse("build")

\* lines 16-20: the file cannot be opened
OpenFail ==
  /\ outcome = "reading" /\ linenumber = 0
  /\ outcome' = "Err"
  /\ returned' = PDBError("BreakingError", "Could not open file", ContextShow)
  /\ UNCHANGED <<menu, linenumber, pdb, current_model, errors, items, acc, model_acc,
                 model, calls, lines>>

\* lines 29-41: the next line cannot be read
ReadFail ==
  /\ outcome = "reading" /\ linenumber < LineBound(menu)
  /\ linenumber' = linenumber + 1
  /\ outcome' = "Err"
  /\ returned' = PDBError("BreakingError", "Could read line", ContextShow)
  /\ UNCHANGED <<menu, pdb, current_model, errors, items, lines, acc, model_acc, model,
                 calls>>

\* The state parse folds the records into.
Builder ==
  [pdb |-> pdb, current_model |-> current_model, errors |-> errors, acc |-> acc,
   model_acc |-> model_acc, panic |-> FALSE]

Commit(r, b) ==
  /\ items' = Append(items, r)
  /\ pdb' = b.pdb
  /\ current_model' = b.current_model
  /\ errors' = b.errors
  /\ acc' = b.acc
  /\ model_acc' = b.model_acc
  /\ outcome' = IF b.panic THEN "Panic" ELSE "reading"

Step(ln, r) == Commit(r, AddLine(Builder, r, ln))

\* lines 26-252: one turn of the loop over the lines
ParseLine ==
  /\ outcome = "reading" /\ linenumber < LineBound(menu)
  /\ linenumber' = linenumber + 1
  /\ \E line \in LinesAt(menu, linenumber + 1) :
       /\ lines' = Append(lines, line)
       /\ Step(linenumber + 1, lineresult(linenumber + 1, line))
  /\ UNCHANGED <<menu, returned, model, calls>>

Return(b) ==
  /\ pdb' = b.pdb
  /\ model_acc' = b.model_acc
  /\ \E v \in ValidateOutputs(b.pdb) : errors' = errors \o v
  /\ outcome' = "Ok"

\* lines 253-258: the end of the stream
Finish ==
  /\ outcome = "reading"
  /\ Return(EndPush(Builder))
  /\ UNCHANGED <<menu, linenumber, current_model, returned, items, lines, acc, model,
                 calls>>

Next == OpenFail \/ ReadFail \/ ParseLine \/ Finish

Spec == Init /\ [][Next]_vars

InitScale == InitParse("scale")
SpecScale == InitScale /\ [][Next]_vars

InitShort == InitParse("short")
SpecShort == InitShort /\ [][Next]_vars

InitTags == InitParse("tags")
SpecTags == InitTags /\ [][Next]_vars

InitAnisou == InitParse("anisou")
SpecAnisou == InitAnisou /\ [][Next]_vars

InitXform == InitParse("xform")
SpecXform == InitXform /\ [][Next]_vars

InitRecon == InitParse("recon")
SpecRecon == InitRecon /\ [][Next]_vars

InitMtrix == InitParse("mtrix")
SpecMtrix == InitMtrix /\ [][Next]_vars

InitDispatch == InitParse("dispatch")
SpecDispatch == InitDispatch /\ [][Next]_vars

InitCharge == InitParse("charge")
SpecCharge == InitCharge /\ [][Next]_vars

InitLength == InitParse("length")
SpecLength == InitLength /\ [][Next]_vars

-----------------------------------------------------------------------------
(* The Model API as a state machine: add_atom and add_hetero_atom on one     *)
(* new Model, with the calls made kept as history.                           *)

ChainIds == {"A", "B"}
ResidueNumbers == {1, 2}
ResidueNames == {<<"A", "L", "A">>, <<"G", "L", "Y">>}

InitModel ==
  /\ menu = "model"
  /\ linenumber = 0
  /\ pdb = PDBNew
  /\ current_model = ModelNew(0)
  /\ errors = <<>>
  /\ outcome = "idle"
  /\ returned = NoError
  /\ items = <<>>
  /\ lines = <<>>
  /\ acc = 1
  /\ model_acc = <<>>
  /\ model = ModelNew(0)
  /\ calls = <<>>

\* The atom of call number n.
CallAtom(n) ==
  AtomNew(n, <<" ", "C", "A", " ">>, F64(0, 0), F64(0, 0), F64(0, 0), F64(1, 0),
          F64(0, 0), <<" ", "C">>, 0, n)

AddAtomCall ==
  /\ outcome = "idle" /\ Len(calls) < MaxCalls
  /\ \E c \in ChainIds, n \in ResidueNumbers, name \in ResidueNames :
       /\ model' = add_atom(model, CallAtom(Len(calls) + 1), c, n, name)
       /\ calls' = Append(calls, [hetero |-> FALSE, chain_id |-> c,
                                  residue_serial_number |-> n, residue_name |-> name])
  /\ UNCHANGED <<menu, linenumber, pdb, current_model, errors, outcome, returned,
                 items, lines, acc, model_acc>>

AddHeteroAtomCall ==
  /\ outcome = "idle" /\ Len(calls) < MaxCalls
  /\ \E c \in ChainIds, n \in ResidueNumbers, name \in ResidueNames :
       /\ model' = add_hetero_atom(model, CallAtom(Len(calls) + 1), c, n, name)
       /\ calls' = Append(calls, [hetero |-> TRUE, chain_id |-> c,
                                  residue_serial_number |-> n, residue_name |-> name])
  /\ UNCHANGED <<menu, linenumber, pdb, current_model, errors, outcome, returned,
                 items, lines, acc, model_acc>>

NextModel == AddAtomCall \/ AddHeteroAtomCall

SpecModel == InitModel /\ [][NextModel]_vars

\* The calls add_atom, add_hetero_atom, join and remove_chain_id on one Model.
InitRemove ==
  /\ menu = "remove"
  /\ linenumber = 0
  /\ pdb = PDBNew
  /\ current_model = ModelNew(0)
  /\ errors = <<>>
  /\ outcome = "idle"
  /\ returned = NoError
  /\ items = <<>>
  /\ lines = <<>>
  /\ acc = 1
  /\ model_acc = <<>>
  /\ model = ModelNew(0)
  /\ calls = <<>>

\* join with a Model of one atom, standard or hetero.
JoinCall ==
  /\ outcome = "idle" /\ Len(calls) < MaxCalls
  /\ \E hetero \in BOOLEAN, c \in ChainIds, n \in ResidueNumbers, name \in ResidueNames :
       /\ model' = join(model,
                        IF hetero
                        THEN add_hetero_atom(ModelNew(0), CallAtom(Len(calls) + 1), c, n, name)
                        ELSE add_atom(ModelNew(0), CallAtom(Len(calls) + 1), c, n, name))
       /\ calls' = Append(calls, [join |-> TRUE, hetero |-> hetero, chain_id |-> c,
                                  residue_serial_number |-> n, residue_name |-> name])
  /\ UNCHANGED <<menu, linenumber, pdb, current_model, errors, outcome, returned,
                 items, lines, acc, model_acc>>

\* remove_chain_id(id); the call and the value it returns are recorded.
RemoveChainIdCall ==
  /\ outcome = "idle" /\ Len(calls) < MaxCalls
  /\ \E id \in ChainIds :
       /\ model' = remove_chain_id(model, id).m
       /\ calls' = Append(calls, [chain_id |-> id, ret |-> remove_chain_id(model, id).ret])
  /\ UNCHANGED <<menu, linenumber, pdb, current_model, errors, outcome, returned,
                 items, lines, acc, model_acc>>

NextRemove == AddAtomCall \/ AddHeteroAtomCall \/ JoinCall \/ RemoveChainIdCall

SpecRemove == InitRemove /\ [][NextRemove]_vars

-----------------------------------------------------------------------------
(* Claims                                                                    *)

Last(s) == s[Len(s)]
IsFatal(r) == r.kind = "Error" /\ r.err.level = "BreakingError"
KindAt(i, kind) == i \in 1..Len(items) /\ items[i].kind = kind
\* The step reads a line and its record is of the kind.
Reads(kind) == Len(items') = Len(items) + 1 /\ Last(items').kind = kind

\* C1: as soon as the decoding of a line gives a fatal (BreakingError)
\* diagnostic, parse stops at that line and returns that diagnostic alone as
\* its Err result.
C1_FatalStopsParse ==
  \A i \in 1..Len(items) :
    IsFatal(items[i]) =>
      outcome = "Err" /\ returned = items[i].err /\ linenumber = i

\* C2: a MODEL record read while the accumulator holds at least one atom,
\* standard or hetero, appends the accumulator to the structure and starts a
\* fresh one with the new serial number.
C2_ModelStartAppends ==
  [][(Reads("Model") /\ total_atom_count(current_model) > 0) =>
       /\ pdb'.models = Append(pdb.models, current_model)
       /\ current_model' = ModelNew(Last(items').number)]_vars

\* C3: every model of the structure holds at least one atom, standard or
\* hetero; the accumulator two MODEL records in a row leave empty is among
\* them in no state.
C3_NoEmptyModel ==
  \A i \in 1..Len(pdb.models) : total_atom_count(pdb.models[i]) >= 1

C3_Witness ==
  /\ outcome = "Ok"
  /\ pdb.models # <<>>
  /\ \E i \in 1..Len(items) : KindAt(i, "Model") /\ KindAt(i + 1, "Model")

\* C4: each accumulator (each Model::new of parse) is appended to the
\* structure at most once; a non-empty accumulator current at the end of the
\* input is appended exactly once; after a MASTER record the accumulator is
\* empty.
C4_AppendedOnce ==
  /\ Len(model_acc) = Len(pdb.models)
  /\ \A i, j \in 1..Len(model_acc) : i # j => model_acc[i] # model_acc[j]
  /\ (outcome = "Ok" /\ total_atom_count(current_model) > 0) =>
       Cardinality({i \in 1..Len(model_acc) : model_acc[i] = acc}) = 1
  /\ (outcome = "reading" /\ items # <<>> /\ Last(items).kind = "Master") =>
       total_atom_count(current_model) = 0

C4_Witness ==
  /\ outcome = "Ok"
  /\ total_atom_count(current_model) > 0
  /\ Len(pdb.models) = 2
  /\ \E i \in 1..Len(items) : KindAt(i, "Master")

\* The chains of a partition of the model, and the calls made on it.
Partition(hetero) == IF hetero THEN model.hetero_chains ELSE model.chains
Matches(i, hetero, id) == calls[i].hetero = hetero /\ calls[i].chain_id = id
ChainIdsOf(chains) == [i \in 1..Len(chains) |-> chains[i].id]
NoDuplicate(s) == \A i, j \in 1..Len(s) : i # j => s[i] # s[j]

\* The chain ids of the first n calls on a partition, each once, in the order
\* of its first call.
RECURSIVE FirstInserted(_, _)
FirstInserted(hetero, n) ==
  IF n = 0 THEN <<>>
  ELSE IF calls[n].hetero = hetero
          /\ \A i \in 1..(n - 1) : ~Matches(i, hetero, calls[n].chain_id)
       THEN Append(FirstInserted(hetero, n - 1), calls[n].chain_id)
       ELSE FirstInserted(hetero, n - 1)

\* The numbers of the first n calls on a residue of a chain, in order.
RECURSIVE CallsOn(_, _, _, _)
CallsOn(hetero, id, serial, n) ==
  IF n = 0 THEN <<>>
  ELSE IF Matches(n, hetero, id) /\ calls[n].residue_serial_number = serial
       THEN Append(CallsOn(hetero, id, serial, n - 1), n)
       ELSE CallsOn(hetero, id, serial, n - 1)

\* C5: in each partition of a Model no two chains have the same id, and a
\* partition holds one chain for each id add_atom (add_hetero_atom) was called
\* with: a chain is created only when the partition has none with the id. The
\* same id may be in both partitions.
C5_ChainIdsUnique ==
  \A hetero \in BOOLEAN :
    /\ NoDuplicate(ChainIdsOf(Partition(hetero)))
    /\ Len(Partition(hetero)) =
         Cardinality({calls[i].chain_id : i \in {k \in 1..Len(calls) : calls[k].hetero = hetero}})

\* The id "A" inserted twice in the standard partition and once in the hetero one.
C5_Witness ==
  /\ Cardinality({i \in 1..Len(calls) : Matches(i, FALSE, "A")}) = 2
  /\ Cardinality({i \in 1..Len(calls) : Matches(i, TRUE, "A")}) = 1
  /\ ChainIdsOf(model.chains) = <<"A">>
  /\ ChainIdsOf(model.hetero_chains) = <<"A">>

\* C6: in a chain the residue of an inserted atom is found by its serial
\* number alone: the chain has one residue for each serial number inserted, the
\* residue holds the atoms of all insertions with that serial number whatever
\* their residue name, and its name is the name of the insertion that created it.
C6_ResidueBySerial ==
  \A hetero \in BOOLEAN :
    \A c \in 1..Len(Partition(hetero)) :
      /\ NoDuplicate([r \in 1..Len(Partition(hetero)[c].residues) |->
                        Partition(hetero)[c].residues[r].serial_number])
      /\ \A i \in 1..Len(calls) :
           Matches(i, hetero, Partition(hetero)[c].id) =>
             \E r \in 1..Len(Partition(hetero)[c].residues) :
               Partition(hetero)[c].residues[r].serial_number =
                 calls[i].residue_serial_number
      /\ \A r \in 1..Len(Partition(hetero)[c].residues) :
           /\ [a \in 1..Len(Partition(hetero)[c].residues[r].atoms) |->
                 Partition(hetero)[c].residues[r].atoms[a].line]
              = CallsOn(hetero, Partition(hetero)[c].id,
                        Partition(hetero)[c].residues[r].serial_number, Len(calls))
           /\ Partition(hetero)[c].residues[r].name =
                calls[CallsOn(hetero, Partition(hetero)[c].id,
                              Partition(hetero)[c].residues[r].serial_number,
                              Len(calls))[1]].residue_name

\* Residue 1 of chain A inserted as ALA and then as GLY: one residue, named
\* ALA, of two atoms.
C6_Witness ==
  /\ Len(calls) = 2
  /\ Matches(1, FALSE, "A") /\ Matches(2, FALSE, "A")
  /\ calls[1].residue_serial_number = 1 /\ calls[2].residue_serial_number = 1
  /\ calls[1].residue_name = <<"A", "L", "A">>
  /\ calls[2].residue_name = <<"G", "L", "Y">>
  /\ Len(model.chains[1].residues) = 1
  /\ Len(model.chains[1].residues[1].atoms) = 2

\* The chains of each partition are in the order in which their ids were
\* first inserted.
FirstInsertionOrder ==
  \A hetero \in BOOLEAN :
    ChainIdsOf(Partition(hetero)) = FirstInserted(hetero, Len(calls))

\* C7: after every insertion the chains of each partition are in the order in
\* which their ids were first inserted, and the insertion left the chains there
\* were at their positions: it added to one of them or appended one chain at
\* the end of its partition.
C7_InsertionOrder ==
  [][/\ FirstInsertionOrder'
     /\ ChainIdsOf(model'.chains) \in
          {ChainIdsOf(model.chains), Append(ChainIdsOf(model.chains), Last(calls').chain_id)}
     /\ ChainIdsOf(model'.hetero_chains) \in
          {ChainIdsOf(model.hetero_chains),
           Append(ChainIdsOf(model.hetero_chains), Last(calls').chain_id)}]_vars

\* B inserted before A, and then B again: the chains stay B, A.
C7_Witness ==
  /\ Len(calls) = 3
  /\ Matches(1, FALSE, "B") /\ Matches(2, FALSE, "A") /\ Matches(3, FALSE, "B")
  /\ ChainIdsOf(model.chains) = <<"B", "A">>

\* The diagnostics of es on the atom count of a MASTER record.
AtomCountErrors(es) == SelectSeq(es, LAMBDA e : e.about = "Atoms")
\* The MASTER record agrees with the structure p in its other checked fields.
OthersAgree(it, p) ==
  it.num_remark = remark_count(p) /\ it.num_empty = 0 /\ it.num_xform = Xform(p)
MasterItems == {i \in 1..Len(items) : items[i].kind = "Master"}

ScaleRows(n) == {i \in 1..Len(items) : items[i].kind = "Scale" /\ items[i].n = n}
Latest(S) == CHOOSE i \in S : \A j \in S : j <= i

\* C9: the structure has a scale matrix from the first SCALEn record on; the
\* matrix is valid exactly in the states where SCALE1, SCALE2 and SCALE3 have
\* all been read; each row read holds the values of the latest record for that
\* row, whatever records for other rows came after it, and a row not read yet
\* is the row of the identity.
C9_ScaleAssembly ==
  /\ has_scale(pdb) <=> \E n \in 0..2 : ScaleRows(n) # {}
  /\ has_scale(pdb) =>
       /\ valid(pdb.scale[1]) <=> \A n \in 0..2 : ScaleRows(n) # {}
       /\ \A n \in 0..2 :
            pdb.scale[1].factors[n + 1] =
              IF ScaleRows(n) = {} THEN Identity[n + 1]
              ELSE items[Latest(ScaleRows(n))].row

\* SCALE1, SCALE2 and SCALE3 read in this order: invalid after the second,
\* valid after the third, with the values 1.5 .. 0.25, 3.5 and 4.5.
C9_Witness ==
  /\ Len(items) = 3
  /\ \A n \in 0..2 : ScaleRows(n) = {n + 1}
  /\ valid(pdb.scale[1])
  /\ pdb.scale[1].factors[1] = <<F64(15, 1), F64(0, 0), F64(1, 0), F64(25, 2)>>
  /\ pdb.scale[1].factors[2][1] = F64(35, 1)
  /\ pdb.scale[1].factors[3][1] = F64(45, 1)

\* C10: no line makes a lexer read a column beyond the end of the line (a
\* panic of the process): a line with the tag of a record kind that ends before
\* the columns its lexer reads gives a diagnostic.
C10_ShortLineRejected ==
  /\ outcome # "Panic"
  /\ \A i \in 1..Len(items) : items[i].kind # "Panic"

\* C11: the charge of an ATOM line from its columns 78 and 79: two blanks give
\* the atom with charge 0; a character that is not a digit in column 78 gives a
\* BreakingError at column 78 whatever column 79 holds; a digit and a
\* character other than + and - a BreakingError at column 79; a digit d and +
\* the charge d, a digit d and - the charge -d.
C11_ChargeDecoding ==
  \A i \in 1..Len(items) :
    IF lines[i][79] = " " /\ lines[i][80] = " "
    THEN items[i].kind = "Atom" /\ items[i].charge = 0
    ELSE IF ~is_ascii_digit(lines[i][79])
    THEN IsFatal(items[i]) /\ items[i].err.context = ContextLine(i, 78, 1)
    ELSE IF lines[i][80] \notin {"+", "-"}
    THEN IsFatal(items[i]) /\ items[i].err.context = ContextLine(i, 79, 1)
    ELSE /\ items[i].kind = "Atom"
         /\ items[i].charge = IF lines[i][80] = "+" THEN to_digit(lines[i][79])
                               ELSE 0 - to_digit(lines[i][79])

\* The charges +- (a fatal diagnostic at column 78), 2- and 1x (a fatal
\* diagnostic at column 79) decoded.
C11_Witness ==
  /\ Len(items) = 3
  /\ lines[1][79] = "+" /\ lines[1][80] = "-"
  /\ items[1].kind = "Error" /\ items[1].err.context.col = 78
  /\ lines[2][79] = "2" /\ lines[2][80] = "-"
  /\ items[2].kind = "Atom" /\ items[2].charge = 0 - 2
  /\ lines[3][79] = "1" /\ lines[3][80] = "x"
  /\ items[3].kind = "Error" /\ items[3].err.context.col = 79

\* C12: the step that reads a line with a tag parse does not know appends one
\* GeneralWarning diagnostic to the diagnostics collected and changes nothing
\* else: the structure and the current model stay as they are, and parse goes
\* on reading.
C12_UnknownTag ==
  [][(Len(lines') = Len(lines) + 1 /\ Last(lines') \in UnknownLines) =>
       /\ errors' = Append(errors, PDBError("GeneralWarning", "Could not recognise tag.",
                                            ContextFullLine(linenumber', Last(lines'))))
       /\ pdb' = pdb
       /\ current_model' = current_model
       /\ outcome' = "reading"]_vars

\* An atom, an unknown tag, an atom: both atoms are in the current model, with
\* one diagnostic.
C12_Witness ==
  /\ Len(lines) = 3
  /\ lines[2] \in UnknownLines
  /\ items[1].kind = "Atom" /\ items[3].kind = "Atom"
  /\ total_atom_count(current_model) = 2
  /\ Len(errors) = 1 /\ errors[1].level = "GeneralWarning"

\* C13: the diagnostics are in the order of encounter: every step keeps the
\* diagnostics collected as they are and appends its own after them, those of
\* a line (the error of its lexer, scoped to that line, or the checksum
\* diagnostics of its MASTER record) in the step that reads the line and those
\* of the validation in the step that returns.
C13_EncounterOrder ==
  [][/\ Len(errors') >= Len(errors)
     /\ SubSeq(errors', 1, Len(errors)) = errors
     /\ \A k \in (Len(errors) + 1)..Len(errors') :
          IF outcome' = "Ok" THEN errors'[k].title = "Validation"
          ELSE \/ /\ Reads("Error")
                  /\ errors'[k] = Last(items').err
                  /\ errors'[k].context.line = linenumber'
               \/ /\ Reads("Master")
                  /\ errors'[k].title = "MASTER checksum failed"]_vars

\* A short ATOM line, a MASTER record declaring one atom, an ATOM line with a
\* malformed x, and the validation: four diagnostics in this order.
C13_Witness ==
  /\ outcome = "Ok"
  /\ Len(errors) = 4
  /\ errors[1].title = "Atom line too short" /\ errors[1].context.line = 1
  /\ errors[2].title = "MASTER checksum failed" /\ items[2].kind = "Master"
  /\ errors[3].title = "Not a number" /\ errors[3].context.line = 3
  /\ errors[4].title = "Validation"

\* The number of atoms in the chains.
AtomsIn(chains) == SumSeq([i \in 1..Len(chains) |-> ChainAtomCount(chains[i])])
CallCount(hetero) == Cardinality({i \in 1..Len(calls) : calls[i].hetero = hetero})

\* C14: after every insertion atom_count is the number of add_atom calls, the
\* number of hetero atoms the number of add_hetero_atom calls and
\* total_atom_count their sum; the insertion added one atom to its partition
\* and left the other partition as it was.
C14_AtomCounts ==
  [][/\ atom_count(model') = CallCount(FALSE)'
     /\ AtomsIn(model'.hetero_chains) = CallCount(TRUE)'
     /\ total_atom_count(model') = CallCount(FALSE)' + CallCount(TRUE)'
     /\ IF Last(calls').hetero
        THEN /\ model'.chains = model.chains
             /\ AtomsIn(model'.hetero_chains) = AtomsIn(model.hetero_chains) + 1
        ELSE /\ model'.hetero_chains = model.hetero_chains
             /\ atom_count(model') = atom_count(model) + 1]_vars

\* Two add_atom calls and one add_hetero_atom call: the counts 2, 1 and 3.
C14_Witness ==
  /\ CallCount(FALSE) = 2 /\ CallCount(TRUE) = 1
  /\ atom_count(model) = 2
  /\ AtomsIn(model.hetero_chains) = 1
  /\ total_atom_count(model) = 3

\* The positions in all_atoms(m) of the atoms with the serial number.
WithSerial(m, serial) ==
  {k \in 1..Len(all_atoms(m)) : all_atoms(m)[k].serial_number = serial}
\* Among them, the atom inserted last (decoded from the latest line).
MostRecent(m, serial) ==
  CHOOSE k \in WithSerial(m, serial) :
    \A j \in WithSerial(m, serial) : all_atoms(m)[j].line <= all_atoms(m)[k].line

\* C15: the step that reads an ANISOU record with the serial number of some
\* atom of the current model sets the factors of the record on the atom
\* inserted most recently among the atoms with that serial number, and leaves
\* every other atom as it was.
C15_MostRecentAtom ==
  [][(Reads("Anisou") /\ WithSerial(current_model, Last(items').serial_number) # {}) =>
       all_atoms(current_model') =
         [k \in 1..Len(all_atoms(current_model)) |->
            IF k = MostRecent(current_model, Last(items').serial_number)
            THEN [all_atoms(current_model)[k] EXCEPT !.atf = <<Last(items').factors>>]
            ELSE all_atoms(current_model)[k]]]_vars

\* C16: the step that reads an ANISOU record with a serial number no atom of
\* the current model has leaves the models of the structure, the current model
\* and the diagnostics as they are, and parse goes on reading.
C16_NoMatchNoEffect ==
  [][(Reads("Anisou") /\ WithSerial(current_model, Last(items').serial_number) = {}) =>
       /\ pdb' = pdb
       /\ current_model' = current_model
       /\ errors' = errors
       /\ outcome' = "reading"]_vars

\* The atom 1 is in a model of the structure, the current model is empty, and
\* the ANISOU record for 1 has been read: the atom has no factors.
C16_Witness ==
  /\ outcome = "reading"
  /\ Len(items) = 3
  /\ items[1].kind = "Atom" /\ items[2].kind = "Model"
  /\ items[3].kind = "Anisou" /\ items[3].serial_number = 1
  /\ Len(pdb.models) = 1
  /\ all_atoms(pdb.models[1])[1].serial_number = 1
  /\ all_atoms(pdb.models[1])[1].atf = <<>>
  /\ total_atom_count(current_model) = 0
  /\ errors = <<>>

\* C17: an ATOM line of 54 characters or more with valid mandatory fields is
\* decoded, whatever its length: an optional field is read when the line holds
\* all its columns (occupancy 54-59, b factor 60-65, segment id 72-75, element
\* 76-77, charge 78-79) and has its default otherwise; no length makes the
\* lexer read beyond the end of the line.
C17_OptionalFieldsByLength ==
  \A i \in 1..Len(items) :
    /\ items[i].kind = "Atom"
    /\ items[i].occupancy = IF Len(lines[i]) >= 60 THEN F64(5, 1) ELSE F64(1, 0)
    /\ items[i].b_factor = IF Len(lines[i]) >= 66 THEN F64(125, 1) ELSE F64(0, 0)
    /\ items[i].segment_id =
         IF Len(lines[i]) >= 76 THEN <<"S", "E", "G", "1">> ELSE <<" ", " ", " ", " ">>
    /\ items[i].element = IF Len(lines[i]) >= 78 THEN <<" ", "C">> ELSE <<" ", " ">>
    /\ items[i].charge = IF Len(lines[i]) >= 80 THEN 1 ELSE 0

\* The rows (0-based) read so far for a matrix: the scale matrix, the origx
\* matrix, the mtrix matrix with the serial number.
RowsRead(kind) == {items[i].n : i \in {k \in 1..Len(items) : items[k].kind = kind}}
MtrixRowsRead(ser) ==
  {items[i].n : i \in {k \in 1..Len(items) : items[k].kind = "MtriX" /\ items[k].ser = ser}}
MtrixSerials == {items[i].ser : i \in {k \in 1..Len(items) : items[k].kind = "MtriX"}}
\* Three for every matrix all three rows of which have been read.
FullySpecified ==
    (IF RowsRead("OrigX") = {0, 1, 2} THEN 3 ELSE 0)
  + (IF RowsRead("Scale") = {0, 1, 2} THEN 3 ELSE 0)
  + 3 * Cardinality({ser \in MtrixSerials : MtrixRowsRead(ser) = {0, 1, 2}})
XformErrors(es) == SelectSeq(es, LAMBDA e : e.about = "xform")

\* C18: the step that reads a MASTER record compares its transformation count
\* with 3 times the number of matrices (origx, scale, each mtrix) that have
\* received all three rows, a matrix absent or with a row missing counting 0;
\* it emits one StrictWarning with both values if they differ and none on the
\* transformation count if they are equal.
C18_XformTally ==
  [][Reads("Master") =>
       XformErrors(SubSeq(errors', Len(errors) + 1, Len(errors'))) =
         IF Last(items').num_xform # FullySpecified
         THEN <<MasterError("StrictWarning", "xform", FullySpecified,
                            Last(items').num_xform)>>
         ELSE <<>>]_vars

\* The scale matrix and the mtrix matrix 1 have all their rows, the mtrix
\* matrix 2 or the origx matrix only some: the tally is 6, and a MASTER record
\* declaring 3 has got its diagnostic.
C18_Witness ==
  /\ outcome = "reading"
  /\ Len(items) = 7 /\ errors # <<>>
  /\ Last(items).kind = "Master" /\ Last(items).num_xform = 3
  /\ RowsRead("Scale") = {0, 1, 2}
  /\ MtrixRowsRead(1) = {0, 1, 2}
  /\ Last(errors) = MasterError("StrictWarning", "xform", 6, 3)

\* The diagnostics of es of the checksum on the remarks, the transformation
\* records and the atoms.
ChecksumErrors(es) ==
  SelectSeq(es, LAMBDA e : e.about \in {"REMARKS", "xform", "Atoms"})
\* What the comparison of a MASTER record with these three counts gives.
Compared(it, remarks, xform, atoms) ==
     (IF it.num_remark # remarks
      THEN <<MasterError("StrictWarning", "REMARKS", remarks, it.num_remark)>> ELSE <<>>)
  \o (IF it.num_xform # xform
      THEN <<MasterError("StrictWarning", "xform", xform, it.num_xform)>> ELSE <<>>)
  \o (IF it.num_coord # atoms
      THEN <<MasterError("StrictWarning", "Atoms", atoms, it.num_coord)>> ELSE <<>>)
RemarksRead == Cardinality({i \in 1..Len(items) : items[i].kind = "Remark"})

MtrixRows(ser, n) ==
  {i \in 1..Len(items) : items[i].kind = "MtriX" /\ items[i].ser = ser /\ items[i].n = n}

\* C20: no two mtrix matrices of the structure have the same serial number,
\* and the structure has one matrix for each serial number read: a row record
\* with the serial number of a matrix sets its row on that matrix (each row
\* holds the values of the latest record for it), and a matrix is added only
\* for a serial number no matrix has.
C20_MtrixUniqueSerial ==
  /\ NoDuplicate([k \in 1..Len(pdb.mtrix) |-> pdb.mtrix[k].serial_number])
  /\ {pdb.mtrix[k].serial_number : k \in 1..Len(pdb.mtrix)} = MtrixSerials
  /\ \A k \in 1..Len(pdb.mtrix) : \A n \in 0..2 :
       /\ pdb.mtrix[k].rows_set[n + 1] <=> MtrixRows(pdb.mtrix[k].serial_number, n) # {}
       /\ pdb.mtrix[k].factors[n + 1] =
            IF MtrixRows(pdb.mtrix[k].serial_number, n) = {} THEN Identity[n + 1]
            ELSE items[Latest(MtrixRows(pdb.mtrix[k].serial_number, n))].row

\* Row 1 of matrix 1, row 1 of matrix 2, row 2 of matrix 1, row 1 of matrix 1
\* again: two matrices, the first with its row 1 from the last record.
C20_Witness ==
  /\ Len(items) = 4
  /\ MtrixRows(1, 0) = {1, 4} /\ MtrixRows(2, 0) = {2} /\ MtrixRows(1, 1) = {3}
  /\ items[1].row # items[4].row
  /\ Len(pdb.mtrix) = 2
  /\ pdb.mtrix[1].serial_number = 1 /\ pdb.mtrix[2].serial_number = 2
  /\ pdb.mtrix[1].factors[1] = items[4].row

\* The record or diagnostic of the line numbered i is the general warning of
\* an unrecognised tag.
UnrecognisedAt(i) ==
  /\ items[i].kind = "Error"
  /\ items[i].err.level = "GeneralWarning"
  /\ items[i].err.title = "Could not recognise tag."

\* C21: a line of 6 characters or more is dispatched on its first 6
\* characters (ENDMDL, TER and the too short ATOM line are recognised, FOOBAR
\* is not), a line of 3 to 5 characters on its first 3 (TER and END are
\* recognised), a line of 1 or 2 characters is an unrecognised tag, and an
\* empty line gives the empty record.
C21_TagDispatch ==
  \A i \in 1..Len(items) :
    IF Len(lines[i]) >= 6
    THEN CASE SubSeq(lines[i], 1, 6) = <<"E", "N", "D", "M", "D", "L">> ->
                items[i].kind = "EndModel"
           [] SubSeq(lines[i], 1, 6) = <<"T", "E", "R", " ", " ", " ">> ->
                items[i].kind = "TER"
           [] SubSeq(lines[i], 1, 6) = TagATOM ->
                IsFatal(items[i]) /\ items[i].err.title = "Atom line too short"
           [] OTHER -> UnrecognisedAt(i)
    ELSE IF Len(lines[i]) >= 3
    THEN CASE SubSeq(lines[i], 1, 3) = <<"T", "E", "R">> -> items[i].kind = "TER"
           [] SubSeq(lines[i], 1, 3) = <<"E", "N", "D">> -> items[i].kind = "End"
           [] OTHER -> UnrecognisedAt(i)
    ELSE IF Len(lines[i]) >= 1 THEN UnrecognisedAt(i)
    ELSE items[i].kind = "Empty"

\* The step is a call of remove_chain_id.
RemoveStep == Len(calls') = Len(calls) + 1 /\ "ret" \in DOMAIN Last(calls')
\* The positions of the chains of the id in a sequence of chains.
Found(chains, id) == {i \in 1..Len(chains) : chains[i].id = id}
First(found) == CHOOSE i \in found : \A j \in found : i <= j

AtomsRead == {i \in 1..Len(items) : items[i].kind = "Atom"}

\* C23: when parse returns a structure and no line gave a fatal diagnostic,
\* no decoded atom is lost or duplicated: the total atom count of the
\* structure, over all models and both partitions, is the number of ATOM and
\* HETATM lines that were decoded.
C23_NoAtomLost ==
  (outcome = "Ok" /\ \A i \in 1..Len(items) : ~IsFatal(items[i]))
    => pdb_total_atom_count(pdb) = Cardinality(AtomsRead)

====
